---- MODULE Spec2Model ----
(***************************************************************************)
(* A model of aleo_python/hash_integer.py: the shim hash_integer() around  *)
(* the hash primitive hash_int(), and the command-line entry point that    *)
(* parses sys.argv[1], calls the shim and prints one message.              *)
(*                                                                         *)
(* Text is modelled as a sequence of one-character strings, so that int()  *)
(* and str() are real conversions.  sys.argv[0] is argv[1] here (TLA+      *)
(* sequences start at 1), so sys.argv[1] is argv[2].                       *)
(*                                                                         *)
(* hash_int() is imported from the compiled aleo_python package and is     *)
(* not among the sources; it is modelled from the specification (field     *)
(* encoder, round function, sponge, digest encoder) over a toy parameter   *)
(* set.  What the specification leaves open is a choice made in Init:      *)
(* the sign policy of the primitive and the Python exception class it      *)
(* raises on InputTooLarge.                                                *)
(***************************************************************************)
EXTENDS Integers, Sequences, FiniteSets, TLC

VARIABLES
    argv,            \* sys.argv
    pc,              \* position of the __main__ block
    input_integer,   \* the local of line 10: <<>> unbound, <<n>> bound
    hashed_integer,  \* the local of line 11: <<>> unbound, <<d>> bound
    stdout,          \* the messages printed, in order
    exc,             \* the exception in flight or escaped: <<>> or <<e>>
    parsed,          \* the texts handed to int(), in order
    primArgs,        \* the values handed to hash_int(), in order
    primRets,        \* what hash_int() answered to each, in order
    steps,           \* the statements of the __main__ block executed
    signPolicy,      \* the primitive's policy for negative input
    errClass,        \* the Python class of the primitive's InputTooLarge
    frame,           \* library use: per caller, the parameter `integer`
    tpc,             \* library use: per caller, its position
    queue,           \* library use: per call, the field elements to absorb
    state,           \* library use: per call, the sponge state tuple
    squeezed,        \* library use: per call, the output elements so far
    ret,             \* library use: per call, the primitive's answer
    ncalls,          \* library use: the calls of hash_integer begun
    results          \* library use: the (input, answer) pairs returned

vars == <<argv, pc, input_integer, hashed_integer, stdout, exc, parsed,
          primArgs, primRets, steps, signPolicy, errClass,
          frame, tpc, queue, state, squeezed, ret, ncalls, results>>

cliVars == <<argv, pc, input_integer, hashed_integer, stdout, exc, parsed,
             primArgs, primRets, steps>>

libVars == <<frame, tpc, queue, state, squeezed, ret, ncalls, results>>

envVars == <<signPolicy, errClass>>

(***************************************************************************)
(* Bounds of the model.                                                    *)
(***************************************************************************)
\* longest text of sys.argv[1], in characters
MaxLen == 3

\* most positional arguments of an invocation
MaxArgs == 2

\* concurrent callers of hash_integer in library use
NumCallers == 2

\* calls of hash_integer made in all, in library use
MaxCalls == 3

(***************************************************************************)
(* Text.                                                                   *)
(***************************************************************************)
DigitChars == <<"0", "1", "2", "3", "4", "5", "6", "7", "8", "9">>

DigitSet == {DigitChars[i] : i \in 1..10}

DigitVal(c) == (CHOOSE i \in 1..10 : DigitChars[i] = c) - 1

\* the characters sys.argv[1] is drawn from
Alphabet == {"0", "1", "2", "-", "+", " ", "_", "a"}

Texts == UNION {[1..k -> Alphabet] : k \in 0..MaxLen}

\* the further positional arguments are drawn from these
ExtraTexts == {<<>>, <<"2">>, <<"a">>}

ExtraArgs == UNION {[1..k -> ExtraTexts] : k \in 0..(MaxArgs - 1)}

ProgName == <<"hash_integer.py">>

(***************************************************************************)
(* Python's conversions between text and integers.                         *)
(***************************************************************************)
RECURSIVE lstrip(_)
lstrip(s) == IF s # <<>> /\ Head(s) = " " THEN lstrip(Tail(s)) ELSE s

RECURSIVE rstrip(_)
rstrip(s) ==
    IF s # <<>> /\ s[Len(s)] = " " THEN rstrip(SubSeq(s, 1, Len(s) - 1)) ELSE s

strip(s) == rstrip(lstrip(s))

RECURSIVE DecimalValue(_)
DecimalValue(ds) ==
    IF ds = <<>> THEN 0
    ELSE 10 * DecimalValue(SubSeq(ds, 1, Len(ds) - 1)) + DigitVal(ds[Len(ds)])

\* int(text) in base 10: surrounding whitespace is dropped, one sign is
\* allowed, then digits, with single underscores allowed between digits;
\* leading zeros are allowed.  Anything else raises ValueError.
int(text) ==
    LET s == strip(text)
        signed == s # <<>> /\ s[1] \in {"+", "-"}
        body == IF signed THEN Tail(s) ELSE s
        wellFormed ==
            /\ body # <<>>
            /\ \A i \in 1..Len(body) : body[i] \in DigitSet \cup {"_"}
            /\ body[1] # "_"
            /\ body[Len(body)] # "_"
            /\ \A i \in 1..(Len(body) - 1) : ~(body[i] = "_" /\ body[i + 1] = "_")
        magnitude == DecimalValue(SelectSeq(body, LAMBDA c : c # "_"))
    IN  IF ~wellFormed THEN [ok |-> FALSE, value |-> 0]
        ELSE [ok |-> TRUE,
              value |-> IF s[1] = "-" THEN 0 - magnitude ELSE magnitude]

RECURSIVE DecimalDigits(_)
DecimalDigits(n) ==
    IF n < 10 THEN <<DigitChars[n + 1]>>
    ELSE DecimalDigits(n \div 10) \o <<DigitChars[(n % 10) + 1]>>

\* str(n), as the f-string of line 12 formats an integer
str(n) == IF n < 0 THEN <<"-">> \o DecimalDigits(0 - n) ELSE DecimalDigits(n)

\* the three messages of the command line
ResultSentence(n, d) ==
    <<"The hash of ">> \o str(n) \o <<" is ">> \o str(d) \o <<".">>

InvalidInputMessage == <<"Invalid input. Please provide an integer.">>

UsageMessage == <<"Please provide an integer as a command line argument.">>

IsResultSentence(m) == m # <<>> /\ m[1] = "The hash of "

\* a Python exception in flight: what it reports, and its class
PyRaise(e, c) == [kind |-> "raise", value |-> 0, error |-> e, cls |-> c]

\* issubclass(cls, ValueError), as `except ValueError` of line 13 matches
IsValueError(cls) == cls = "ValueError"

(***************************************************************************)
(* The hash primitive hash_int, from the specification: field encoder,     *)
(* round function, sponge and digest encoder over a toy parameter set.     *)
(***************************************************************************)
\* the field modulus
P == 11

\* the base of the field encoder's digits
Base == 11

\* the fixed width of the encoding: the configured capacity is Base^MaxDigits
MaxDigits == 2

\* the permutation's state width, and the rounds it iterates
Width == 2

Rounds == 2

\* the S-box exponent
Alpha == 3

\* the output elements of a digest
DigestLen == 2

RoundConstants == <<<<1, 2>>, <<3, 4>>>>

MDS == <<<<2, 1>>, <<1, 1>>>>

SignPolicies == {"Reject", "SignMagnitude"}

\* the Python classes the primitive's failure may have
ErrClasses == {"ValueError", "OverflowError"}

RECURSIVE Pow(_, _)
Pow(b, e) == IF e = 0 THEN 1 ELSE b * Pow(b, e - 1)

Capacity == Pow(Base, MaxDigits) - 1

Abs(n) == IF n < 0 THEN 0 - n ELSE n

RECURSIVE BaseDigits(_)
BaseDigits(n) ==
    IF n = 0 THEN <<>> ELSE <<n % Base>> \o BaseDigits(n \div Base)

\* 4.1: little-endian digits in base Base behind a length element, and under
\* the sign-and-magnitude policy a sign element in front
FieldEncoder(n) ==
    LET digits == BaseDigits(Abs(n))
        sign == IF signPolicy = "SignMagnitude"
                THEN <<IF n < 0 THEN 1 ELSE 0>> ELSE <<>>
    IN  sign \o <<Len(digits)>> \o digits

\* 4.2: one round: add the round constants, the S-box, the linear mixing
Round(s, r) ==
    LET added == [i \in 1..Width |-> (s[i] + RoundConstants[r][i]) % P]
        boxed == [i \in 1..Width |-> Pow(added[i], Alpha) % P]
    IN  [i \in 1..Width |-> (MDS[i][1] * boxed[1] + MDS[i][2] * boxed[2]) % P]

RECURSIVE RoundsFrom(_, _)
RoundsFrom(s, r) == IF r > Rounds THEN s ELSE RoundsFrom(Round(s, r), r + 1)

Permutation(s) == RoundsFrom(s, 1)

\* 4.3: the sponge of rate 1: a fresh state, each element added into the
\* first slot and permuted, then the first slot read DigestLen times with
\* the permutation between the reads
FreshState == [i \in 1..Width |-> 0]

Absorb(s, e) == [s EXCEPT ![1] = (s[1] + e) % P]

RECURSIVE AbsorbAll(_, _)
AbsorbAll(s, q) ==
    IF q = <<>> THEN s ELSE AbsorbAll(Permutation(Absorb(s, Head(q))), Tail(q))

RECURSIVE SqueezeAll(_, _)
SqueezeAll(s, k) ==
    IF k = 1 THEN <<s[1]>> ELSE <<s[1]>> \o SqueezeAll(Permutation(s), k - 1)

\* 4.4: the output elements recombined in base Base
DigestEncoder(out) == out[1] + Base * out[2]

Digest(d) == [kind |-> "digest", value |-> d, error |-> "", cls |-> ""]

Raise(e) == PyRaise(e, errClass)

\* what the primitive answers before any hashing: the failure, if any
Rejection(n) ==
    IF Abs(n) > Capacity THEN <<Raise("InputTooLarge")>>
    ELSE IF n < 0 /\ signPolicy = "Reject" THEN <<Raise("NegativeInput")>>
    ELSE <<>>

\* 6: hash(integer) -> digest, run alone
hash_int(n) ==
    IF Rejection(n) # <<>> THEN Rejection(n)[1]
    ELSE Digest(DigestEncoder(
             SqueezeAll(AbsorbAll(FreshState, FieldEncoder(n)), DigestLen)))

(***************************************************************************)
(* The shim, lines 4-5.                                                    *)
(***************************************************************************)
\* mutant: the shim drops the sign before it calls the primitive
hash_integer_abs(integer) ==
    [arg |-> Abs(integer), answer |-> hash_int(Abs(integer))]

\* mutant: the shim keeps a call counter and salts the argument with it
hash_integer_salted(integer) ==
    [arg |-> integer + ncalls, answer |-> hash_int(integer + ncalls)]

\* mutant: the shim reads the argument from one slot all callers share
\* (the frame of caller 1) instead of its own parameter
hash_integer_shared_slot(integer) ==
    [arg |-> frame[1], answer |-> hash_int(frame[1])]

\* hash_integer(integer): what it hands to hash_int, and what it returns
hash_integer(integer) == [arg |-> integer, answer |-> hash_int(integer)]

(***************************************************************************)
(* The command line, lines 7-16.                                           *)
(***************************************************************************)
Callers == 1..NumCallers

NoCall == [t \in Callers |-> <<>>]

\* the library state of a process that runs the script: nobody calls
LibIdle ==
    /\ frame = [t \in Callers |-> 0]
    /\ tpc = [t \in Callers |-> "idle"]
    /\ queue = NoCall
    /\ state = NoCall
    /\ squeezed = NoCall
    /\ ret = NoCall
    /\ ncalls = 0
    /\ results = {}

Init ==
    /\ argv \in {<<ProgName>>}
            \cup {<<ProgName, t>> \o x : t \in Texts, x \in ExtraArgs}
    /\ pc = "if"
    /\ input_integer = <<>>
    /\ hashed_integer = <<>>
    /\ stdout = <<>>
    /\ exc = <<>>
    /\ parsed = <<>>
    /\ primArgs = <<>>
    /\ primRets = <<>>
    /\ steps = 0
    /\ signPolicy \in SignPolicies
    /\ errClass \in ErrClasses
    /\ LibIdle

\* mutant: the guard counts the program name: len(sys.argv) > 0
Main_if_counts_program_name ==
    /\ pc = "if"
    /\ steps' = steps + 1
    /\ pc' = IF Len(argv) > 0 THEN "int" ELSE "else"
    /\ UNCHANGED <<argv, input_integer, hashed_integer, stdout, exc, parsed,
                   primArgs, primRets, envVars, libVars>>

\* line 8: if len(sys.argv) > 1
Main_if ==
    /\ pc = "if"
    /\ steps' = steps + 1
    /\ pc' = IF Len(argv) > 1 THEN "int" ELSE "else"
    /\ UNCHANGED <<argv, input_integer, hashed_integer, stdout, exc, parsed,
                   primArgs, primRets, envVars, libVars>>

\* mutant: a text that does not parse is taken as 0 and hashed
Main_int_default_zero ==
    /\ pc = "int"
    /\ steps' = steps + 1
    /\ Len(argv) > 1
    /\ parsed' = Append(parsed, argv[2])
    /\ input_integer' = <<int(argv[2]).value>>
    /\ pc' = "hash_integer"
    /\ UNCHANGED <<argv, hashed_integer, stdout, exc, primArgs, primRets,
                   envVars, libVars>>

\* line 10: input_integer = int(sys.argv[1]).  sys.argv[1] of a one-element
\* sys.argv raises IndexError, which no handler of the script catches.
Main_int ==
    /\ pc = "int"
    /\ steps' = steps + 1
    /\ IF Len(argv) < 2
       THEN /\ parsed' = parsed
            /\ input_integer' = input_integer
            /\ exc' = <<PyRaise("IndexError", "IndexError")>>
            /\ pc' = "crashed"
       ELSE IF int(argv[2]).ok
       THEN /\ parsed' = Append(parsed, argv[2])
            /\ input_integer' = <<int(argv[2]).value>>
            /\ exc' = exc
            /\ pc' = "hash_integer"
       ELSE /\ parsed' = Append(parsed, argv[2])
            /\ input_integer' = input_integer
            /\ exc' = <<PyRaise("InvalidLiteral", "ValueError")>>
            /\ pc' = "except"
    /\ UNCHANGED <<argv, hashed_integer, stdout, primArgs, primRets,
                   envVars, libVars>>

\* mutant: the start of the sentence is printed before the hash is known
Main_hash_integer_prints_first ==
    /\ pc = "hash_integer"
    /\ steps' = steps + 1
    /\ LET call == hash_integer(input_integer[1])
       IN  /\ primArgs' = Append(primArgs, call.arg)
           /\ primRets' = Append(primRets, hash_int(call.arg))
           /\ stdout' = Append(stdout, <<"The hash of ">>
                                        \o str(input_integer[1]) \o <<" is ">>)
           /\ IF call.answer.kind = "digest"
              THEN /\ hashed_integer' = <<call.answer.value>>
                   /\ exc' = exc
                   /\ pc' = "print"
              ELSE /\ hashed_integer' = hashed_integer
                   /\ exc' = <<call.answer>>
                   /\ pc' = IF IsValueError(call.answer.cls)
                            THEN "except" ELSE "crashed"
    /\ UNCHANGED <<argv, input_integer, parsed, envVars, libVars>>

\* line 11: hashed_integer = hash_integer(input_integer).  A raised
\* ValueError goes to the handler of line 13; any other class escapes.
Main_hash_integer ==
    /\ pc = "hash_integer"
    /\ steps' = steps + 1
    /\ LET call == hash_integer(input_integer[1])
       IN  /\ primArgs' = Append(primArgs, call.arg)
           /\ primRets' = Append(primRets, hash_int(call.arg))
           /\ IF call.answer.kind = "digest"
              THEN /\ hashed_integer' = <<call.answer.value>>
                   /\ exc' = exc
                   /\ pc' = "print"
              ELSE /\ hashed_integer' = hashed_integer
                   /\ exc' = <<call.answer>>
                   /\ pc' = IF IsValueError(call.answer.cls)
                            THEN "except" ELSE "crashed"
    /\ UNCHANGED <<argv, input_integer, stdout, parsed, envVars, libVars>>

\* mutant: the sentence shows the text of sys.argv[1], not the parsed integer
Main_print_raw_text ==
    /\ pc = "print"
    /\ steps' = steps + 1
    /\ stdout' = Append(stdout, <<"The hash of ">> \o argv[2] \o <<" is ">>
                                 \o str(hashed_integer[1]) \o <<".">>)
    /\ pc' = "done"
    /\ UNCHANGED <<argv, input_integer, hashed_integer, exc, parsed,
                   primArgs, primRets, envVars, libVars>>

\* line 12: print(f"The hash of {input_integer} is {hashed_integer}.")
Main_print ==
    /\ pc = "print"
    /\ steps' = steps + 1
    /\ stdout' = Append(stdout,
                        ResultSentence(input_integer[1], hashed_integer[1]))
    /\ pc' = "done"
    /\ UNCHANGED <<argv, input_integer, hashed_integer, exc, parsed,
                   primArgs, primRets, envVars, libVars>>

\* mutant: the handler falls through to the usage hint of the else branch
Main_except_falls_through ==
    /\ pc = "except"
    /\ steps' = steps + 1
    /\ stdout' = Append(stdout, InvalidInputMessage)
    /\ exc' = <<>>
    /\ pc' = "else"
    /\ UNCHANGED <<argv, input_integer, hashed_integer, parsed,
                   primArgs, primRets, envVars, libVars>>

\* lines 13-14: except ValueError: print("Invalid input. ...")
Main_except ==
    /\ pc = "except"
    /\ steps' = steps + 1
    /\ stdout' = Append(stdout, InvalidInputMessage)
    /\ exc' = <<>>
    /\ pc' = "done"
    /\ UNCHANGED <<argv, input_integer, hashed_integer, parsed,
                   primArgs, primRets, envVars, libVars>>

\* lines 15-16: else: print("Please provide an integer ...")
Main_else ==
    /\ pc = "else"
    /\ steps' = steps + 1
    /\ stdout' = Append(stdout, UsageMessage)
    /\ pc' = "done"
    /\ UNCHANGED <<argv, input_integer, hashed_integer, exc, parsed,
                   primArgs, primRets, envVars, libVars>>

Next ==
    \/ Main_if
    \/ Main_int
    \/ Main_hash_integer
    \/ Main_print
    \/ Main_except
    \/ Main_else

Spec == Init /\ [][Next]_vars

(***************************************************************************)
(* Library use: callers of hash_integer in concurrent threads.  The        *)
(* primitive runs step by step on the state tuple of its own call.         *)
(***************************************************************************)
\* the integers the callers hash
LibInputs == {0 - 1, 7, 121}

LibInit ==
    /\ argv = <<ProgName>>
    /\ pc = "imported"
    /\ input_integer = <<>>
    /\ hashed_integer = <<>>
    /\ stdout = <<>>
    /\ exc = <<>>
    /\ parsed = <<>>
    /\ primArgs = <<>>
    /\ primRets = <<>>
    /\ steps = 0
    /\ signPolicy \in SignPolicies
    /\ errClass \in ErrClasses
    /\ LibIdle

\* a caller calls hash_integer(n): line 4 binds the parameter
hash_integer_call(t) ==
    /\ tpc[t] = "idle"
    /\ ncalls < MaxCalls
    /\ \E n \in LibInputs : frame' = [frame EXCEPT ![t] = n]
    /\ tpc' = [tpc EXCEPT ![t] = "shim"]
    /\ ncalls' = ncalls + 1
    /\ UNCHANGED <<queue, state, squeezed, ret, results, cliVars, envVars>>

\* line 5 calls hash_int: the primitive rejects its argument, or encodes it
\* and allocates the state tuple of this call
hash_int_enter(t) ==
    /\ tpc[t] = "shim"
    /\ LET arg == hash_integer(frame[t]).arg
       IN  IF Rejection(arg) # <<>>
           THEN /\ ret' = [ret EXCEPT ![t] = Rejection(arg)]
                /\ tpc' = [tpc EXCEPT ![t] = "return"]
                /\ UNCHANGED <<queue, state, squeezed>>
           ELSE /\ queue' = [queue EXCEPT ![t] = FieldEncoder(arg)]
                /\ state' = [state EXCEPT ![t] = FreshState]
                /\ squeezed' = [squeezed EXCEPT ![t] = <<>>]
                /\ ret' = [ret EXCEPT ![t] = <<>>]
                /\ tpc' = [tpc EXCEPT ![t] = "absorb"]
    /\ UNCHANGED <<frame, ncalls, results, cliVars, envVars>>

\* the sponge adds the next element into the first slot of the state
sponge_absorb(t) ==
    /\ tpc[t] = "absorb"
    /\ state' = [state EXCEPT ![t] = Absorb(state[t], Head(queue[t]))]
    /\ queue' = [queue EXCEPT ![t] = Tail(queue[t])]
    /\ tpc' = [tpc EXCEPT ![t] = "permute"]
    /\ UNCHANGED <<frame, squeezed, ret, ncalls, results, cliVars, envVars>>

\* the permutation runs on the state: after an absorbed element, and
\* between two reads of the output
sponge_permute(t) ==
    /\ tpc[t] = "permute"
    /\ state' = [state EXCEPT ![t] = Permutation(state[t])]
    /\ tpc' = [tpc EXCEPT ![t] =
                  IF queue[t] # <<>> THEN "absorb" ELSE "squeeze"]
    /\ UNCHANGED <<frame, queue, squeezed, ret, ncalls, results,
                   cliVars, envVars>>

\* the sponge reads the first slot; the last read encodes the digest
sponge_squeeze(t) ==
    /\ tpc[t] = "squeeze"
    /\ LET out == Append(squeezed[t], state[t][1])
       IN  /\ squeezed' = [squeezed EXCEPT ![t] = out]
           /\ IF Len(out) < DigestLen
              THEN /\ tpc' = [tpc EXCEPT ![t] = "permute"]
                   /\ ret' = ret
              ELSE /\ tpc' = [tpc EXCEPT ![t] = "return"]
                   /\ ret' = [ret EXCEPT ![t] = <<Digest(DigestEncoder(out))>>]
    /\ UNCHANGED <<frame, queue, state, ncalls, results, cliVars, envVars>>

\* line 5 returns to the caller what hash_int answered; the state tuple of
\* the call and the frame of hash_integer are discarded
hash_integer_return(t) ==
    /\ tpc[t] = "return"
    /\ results' = results \cup {[input |-> frame[t], answer |-> ret[t][1]]}
    /\ tpc' = [tpc EXCEPT ![t] = "idle"]
    /\ queue' = [queue EXCEPT ![t] = <<>>]
    /\ state' = [state EXCEPT ![t] = <<>>]
    /\ squeezed' = [squeezed EXCEPT ![t] = <<>>]
    /\ ret' = [ret EXCEPT ![t] = <<>>]
    /\ frame' = [frame EXCEPT ![t] = 0]
    /\ UNCHANGED <<ncalls, cliVars, envVars>>

LibNext ==
    \E t \in Callers :
        \/ hash_integer_call(t)
        \/ hash_int_enter(t)
        \/ sponge_absorb(t)
        \/ sponge_permute(t)
        \/ sponge_squeeze(t)
        \/ hash_integer_return(t)

LibSpec == LibInit /\ [][LibNext]_vars

(***************************************************************************)
(* Properties of the command line.                                         *)
(***************************************************************************)
Terminated == pc \in {"done", "crashed"}

\* the positions of the script that hold a statement: lines 8, 10, 11, 12,
\* 13-14 and 15-16; the action of each is guarded by the position alone
Statements == {"if", "int", "hash_integer", "print", "except", "else"}

\* the script is not stuck: it has ended, or it is at a statement
Running == Terminated \/ pc \in Statements

NoArgument == Len(argv) = 1

Unparseable == Len(argv) > 1 /\ ~int(argv[2]).ok

Parseable == Len(argv) > 1 /\ int(argv[2]).ok

ParsedInput == int(argv[2]).value

ResultPrinted == \E i \in 1..Len(stdout) : IsResultSentence(stdout[i])

\* m reads: "The hash of ", the decimal text n, " is ", the decimal text d, "."
SentenceOf(m, n, d) ==
    /\ Len(m) = Len(n) + Len(d) + 3
    /\ m[1] = "The hash of "
    /\ SubSeq(m, 2, Len(n) + 1) = n
    /\ m[Len(n) + 2] = " is "
    /\ SubSeq(m, Len(n) + 3, Len(n) + Len(d) + 2) = d
    /\ m[Len(m)] = "."

\* C1: when sys.argv[1] does not parse as an integer, the hash primitive is
\* never invoked, no result sentence is printed, no exception escapes, the
\* run is never stuck before its end, and at its end it has printed the
\* invalid-input message and nothing else.  (That the run ends is C10.)
C1_InvalidArgument ==
    Unparseable =>
       /\ primArgs = <<>>
       /\ ~ResultPrinted
       /\ pc # "crashed"
       /\ Running
       /\ (pc = "done" => stdout = <<InvalidInputMessage>> /\ exc = <<>>)

C1_Witness ==
    /\ pc = "done"
    /\ Unparseable
    /\ parsed = <<argv[2]>>
    /\ stdout = <<InvalidInputMessage>>

\* C2: when sys.argv[1] parses as n and the primitive returns the digest d
\* for it, the finished run has printed exactly one message, the result
\* sentence, and the sentence shows n and d in decimal, d being what the
\* primitive answered when it was handed n.
C2_ResultSentence ==
    (/\ Parseable
     /\ primRets # <<>>
     /\ primRets[1].kind = "digest")
    => /\ primArgs = <<ParsedInput>>
       /\ Len(stdout) <= 1
       /\ (pc = "done" =>
             /\ Len(stdout) = 1
             /\ SentenceOf(stdout[1], str(ParsedInput), str(primRets[1].value)))

\* a text that is not the decimal form of its integer was parsed and hashed
C2_Witness ==
    /\ pc = "done"
    /\ Parseable
    /\ argv[2] # str(ParsedInput)
    /\ primRets # <<>>
    /\ primRets[1].kind = "digest"
    /\ ResultPrinted

\* C3: without a positional argument nothing is parsed, the hash primitive
\* is never invoked, no exception is raised, the run is never stuck before
\* its end, and at its end it has printed the usage hint and nothing else.
\* (That the run ends is C10.)
C3_MissingArgument ==
    NoArgument =>
       /\ parsed = <<>>
       /\ primArgs = <<>>
       /\ pc # "crashed"
       /\ exc = <<>>
       /\ Running
       /\ (pc = "done" => stdout = <<UsageMessage>>)

C3_Witness ==
    /\ pc = "done"
    /\ NoArgument
    /\ stdout = <<UsageMessage>>

\* C4: the hash primitive is invoked, and a result sentence printed, only
\* for an invocation with exactly one positional argument.
C4_ExactlyOneArgument ==
    (primArgs # <<>> \/ ResultPrinted) => Len(argv) = 2

\* C5: a failure of the primitive with InputTooLarge leaves the run as an
\* InputTooLarge: the run ends with that exception escaped, and the
\* invalid-input message is not printed for it.
C5_InputTooLargeReported ==
    (/\ Terminated
     /\ primRets # <<>>
     /\ primRets[1].kind = "raise"
     /\ primRets[1].error = "InputTooLarge")
    => /\ pc = "crashed"
       /\ exc = <<primRets[1]>>
       /\ \A i \in 1..Len(stdout) : stdout[i] # InvalidInputMessage

\* C6: whatever is printed of a result is the complete sentence with the
\* digest the primitive returned, and when the primitive fails nothing of a
\* result is printed.
C6_NoPartialResult ==
    /\ \A i \in 1..Len(stdout) :
          IsResultSentence(stdout[i]) =>
             /\ primRets # <<>>
             /\ primRets[1].kind = "digest"
             /\ SentenceOf(stdout[i], str(primArgs[1]),
                           str(primRets[1].value))
    /\ (primRets # <<>> /\ primRets[1].kind = "raise") => ~ResultPrinted

\* the primitive failed, and the finished run shows no result
C6_Witness ==
    /\ Terminated
    /\ primRets # <<>>
    /\ primRets[1].kind = "raise"
    /\ ~ResultPrinted

\* C9: the value handed to the primitive is the parsed integer itself, also
\* when it is zero or negative, and hash_integer gives back what the
\* primitive answered: its digest as the return value, its exception as the
\* exception in flight.
C9_PassThrough ==
    primArgs # <<>> =>
       /\ Parseable
       /\ primArgs = <<ParsedInput>>
       /\ Len(primRets) = 1
       /\ (primRets[1].kind = "digest" =>
             hashed_integer = <<primRets[1].value>>)
       /\ (primRets[1].kind = "raise" =>
             /\ hashed_integer = <<>>
             /\ (pc \in {"except", "crashed"} => exc = <<primRets[1]>>))

\* a negative integer was handed over and hashed
C9_Witness ==
    /\ primArgs # <<>>
    /\ primArgs[1] < 0
    /\ hashed_integer # <<>>
    /\ hashed_integer[1] = primRets[1].value

\* zero was handed over and hashed
C9_WitnessZero ==
    /\ primArgs = <<0>>
    /\ hashed_integer # <<>>

\* C10: every run ends: it is never stuck before its end, and it has ended
\* when four statements (if, int, hash_integer, and a print) are executed.
\* The primitive is invoked at most once, and only after sys.argv[1] has
\* parsed; a run that ends without an escaped exception has printed exactly
\* one message, one of the result sentence, the invalid-input message and
\* the usage hint; and an exception escapes only from the primitive, and is
\* then no ValueError.
C10_OneMessage ==
    /\ Running
    /\ steps <= 4
    /\ (steps = 4 => Terminated)
    /\ Len(primArgs) <= 1
    /\ (primArgs # <<>> =>
          /\ Parseable
          /\ parsed = <<argv[2]>>
          /\ input_integer = <<ParsedInput>>)
    /\ Len(stdout) <= 1
    /\ (pc = "done" =>
          /\ Len(stdout) = 1
          /\ Cardinality({k \in {"result", "invalid", "usage"} :
                \/ k = "result" /\ IsResultSentence(stdout[1])
                \/ k = "invalid" /\ stdout[1] = InvalidInputMessage
                \/ k = "usage" /\ stdout[1] = UsageMessage}) = 1)
    /\ (pc = "crashed" =>
          /\ stdout = <<>>
          /\ primRets # <<>>
          /\ exc = <<primRets[1]>>
          /\ ~IsValueError(exc[1].cls))

\* the primitive was invoked once and raised a ValueError: one message
C10_Witness ==
    /\ pc = "done"
    /\ Len(primArgs) = 1
    /\ primRets[1].kind = "raise"
    /\ Len(stdout) = 1

(***************************************************************************)
(* Properties of library use.                                              *)
(***************************************************************************)
Returning == {t \in Callers : tpc[t] = "return"}

\* the answers seen so far: those returned, and those about to be
Answers ==
    results \cup {[input |-> frame[t], answer |-> ret[t][1]] : t \in Returning}

\* C7: two calls of hash_integer with the same integer get the same answer,
\* whatever calls were made before or between them.
C7_Determinism ==
    \A a, b \in Answers : a.input = b.input => a.answer = b.answer

\* a second call with an integer hashed before has its digest, and a call
\* with another integer was made as well
C7_Witness ==
    \E t \in Returning : \E a, b \in results :
        /\ a.input = frame[t]
        /\ a.answer.kind = "digest"
        /\ ret[t][1] = a.answer
        /\ b.input # a.input
        /\ b.answer.kind = "digest"

\* C8: a call that runs interleaved with other calls gets the answer the
\* primitive gives for its integer when run alone.
C8_Independence ==
    \A a \in Answers : a.answer = hash_int(a.input)

\* two calls with different integers were in flight together, and both
\* have their digests
C8_Witness ==
    \E t, u \in Returning :
        /\ t # u
        /\ frame[t] # frame[u]
        /\ ret[t][1].kind = "digest"
        /\ ret[u][1].kind = "digest"
        /\ ret[t][1] # ret[u][1]

====
